---- MODULE Spec2Model ----
(***************************************************************************)
(* Model of the IOM Missing Migrants scraper: the year-by-year fetch       *)
(* (scrape_data), the date-range reduction (_get_date_range) and the       *)
(* dataset assembly (generate_dataset) of the classes IOM (iom.py) and     *)
(* Pipeline (pipeline.py).                                                 *)
(*                                                                         *)
(* A string is a sequence of one-character strings, so that strptime can   *)
(* be modelled by what it does to the characters.  A row (a Python dict)   *)
(* is a sequence of <<key, value>> pairs in insertion order; keys are      *)
(* field names and values are strings in the sense above.                  *)
(***************************************************************************)
EXTENDS Integers, Sequences, FiniteSets, TLC

VARIABLES
    variant,            \* which class runs: "IOM" or "Pipeline"
    base_url,           \* configuration["base_url"]
    now_year,           \* datetime.now().year
    pc,                 \* position of the run
    years,              \* the list of years scrape_data iterates over
    idx,                \* number of years of the list already processed
    data_by_year_list,  \* the aggregate row collection
    requests,           \* the urls handed to retriever.download_json, in order
    outcomes,           \* what download_json answered to each request, in order
    returned,           \* TRUE once scrape_data has returned data_by_year_list
    error,              \* the exception that left the run, if any
    date_range,         \* the result of _get_date_range
    printed,            \* the date strings _get_date_range reported by print
    calls,              \* the calls generate_dataset made, in order
    resource_args,      \* the arguments of generate_resource_from_iterable
    resource_result,    \* what generate_resource_from_iterable did, "" before
    dataset             \* what generate_dataset returned

vars == <<variant, base_url, now_year, pc, years, idx, data_by_year_list,
          requests, outcomes, returned, error, date_range, printed, calls,
          resource_args, resource_result, dataset>>

(***************************************************************************)
(* Bounds of the model.                                                    *)
(***************************************************************************)
MaxYears == 2     \* now_year ranges over StartYear .. StartYear+MaxYears-1
MaxBatch == 2     \* rows in one year's fetch result
MaxRows == 3      \* rows of a collection handed directly to generate_dataset

(***************************************************************************)
(* Class-level constants.                                                  *)
(***************************************************************************)
StartYear == 2014
DATE_FIELD == "reported_date"
FILENAME == "iom-missing-migrants-project-data.csv"
LOCATION == "world"
OUTPUT_FORMAT == "json"

Variants == {"IOM", "Pipeline"}
BaseUrls == {"https://missingmigrants.iom.int/api"}

(***************************************************************************)
(* Strings as character sequences.                                         *)
(***************************************************************************)
DigitVal == ("0" :> 0) @@ ("1" :> 1) @@ ("2" :> 2) @@ ("3" :> 3) @@ ("4" :> 4)
            @@ ("5" :> 5) @@ ("6" :> 6) @@ ("7" :> 7) @@ ("8" :> 8) @@ ("9" :> 9)

IsDigit(c) == c \in DOMAIN DigitVal

NonZeroDigit(c) == IsDigit(c) /\ c # "0"

\* int() of a string of decimal digits
RECURSIVE ToInt(_)
ToInt(s) ==
    IF s = <<>> THEN 0
    ELSE 10 * ToInt(SubSeq(s, 1, Len(s) - 1)) + DigitVal[s[Len(s)]]

(***************************************************************************)
(* datetime.strptime(date_str, "%Y-%m-%d").                                *)
(*                                                                         *)
(* The format compiles to the regular expression                           *)
(*   (?P<Y>\d\d\d\d)-(?P<m>1[0-2]|0[1-9]|[1-9])-                           *)
(*   (?P<d>3[0-1]|[1-2]\d|0[1-9]|[1-9]| [1-9])                             *)
(* matched at the start of the string; text left over after the match, a   *)
(* failed match and a day the month does not have all raise ValueError.    *)
(***************************************************************************)
AllDigits(s) == \A i \in 1..Len(s) : IsDigit(s[i])

\* (?P<Y>\d\d\d\d)
MatchY(s) == Len(s) = 4 /\ AllDigits(s)

\* (?P<m>1[0-2]|0[1-9]|[1-9])
MatchM(s) ==
    \/ Len(s) = 2 /\ s[1] = "1" /\ s[2] \in {"0", "1", "2"}
    \/ Len(s) = 2 /\ s[1] = "0" /\ NonZeroDigit(s[2])
    \/ Len(s) = 1 /\ NonZeroDigit(s[1])

\* (?P<d>3[0-1]|[1-2]\d|0[1-9]|[1-9]| [1-9])
MatchD(s) ==
    \/ Len(s) = 2 /\ s[1] = "3" /\ s[2] \in {"0", "1"}
    \/ Len(s) = 2 /\ s[1] \in {"1", "2"} /\ IsDigit(s[2])
    \/ Len(s) = 2 /\ s[1] = "0" /\ NonZeroDigit(s[2])
    \/ Len(s) = 1 /\ NonZeroDigit(s[1])
    \/ Len(s) = 2 /\ s[1] = " " /\ NonZeroDigit(s[2])

\* int() of a matched group; int(" 5") = 5
GroupInt(s) == IF s[1] = " " THEN ToInt(Tail(s)) ELSE ToInt(s)

IsLeap(y) == y % 4 = 0 /\ (y % 100 # 0 \/ y % 400 = 0)

DaysInMonth(y, m) ==
    IF m = 2 THEN (IF IsLeap(y) THEN 29 ELSE 28)
    ELSE IF m \in {4, 6, 9, 11} THEN 30 ELSE 31

\* datetime.date(y, m, d) accepts MINYEAR <= y, 1 <= m <= 12, 1 <= d <= days
ValidDate(y, m, d) ==
    /\ y >= 1
    /\ m \in 1..12
    /\ d >= 1 /\ d <= DaysInMonth(y, m)

NoDate == [year |-> 0, month |-> 0, day |-> 0]

\* the lengths lm, ld of the month and day groups of a full match of s
Splits(s) ==
    {sp \in {1, 2} \X {1, 2} :
        /\ Len(s) = 4 + 1 + sp[1] + 1 + sp[2]
        /\ MatchY(SubSeq(s, 1, 4))
        /\ s[5] = "-"
        /\ MatchM(SubSeq(s, 6, 5 + sp[1]))
        /\ s[6 + sp[1]] = "-"
        /\ MatchD(SubSeq(s, 7 + sp[1], Len(s)))}

\* datetime.date(y, m, d); ok = FALSE stands for its ValueError
MakeDate(y, m, d) ==
    IF ValidDate(y, m, d)
    THEN [ok |-> TRUE, date |-> [year |-> y, month |-> m, day |-> d]]
    ELSE [ok |-> FALSE, date |-> NoDate]

\* the date of the groups of the match of s whose month group has lm
\* characters
DateOfGroups(s, lm) ==
    MakeDate(ToInt(SubSeq(s, 1, 4)),
             GroupInt(SubSeq(s, 6, 5 + lm)),
             GroupInt(SubSeq(s, 7 + lm, Len(s))))

\* the result of strptime given the full matches sps of s
DateOfMatch(s, sps) ==
    IF sps = {} THEN [ok |-> FALSE, date |-> NoDate]
    ELSE DateOfGroups(s, (CHOOSE x \in sps : TRUE)[1])

\* ok = FALSE stands for the ValueError strptime raises
StrpTime(s) == DateOfMatch(s, Splits(s))

\* datetime.__lt__ on two dates at midnight
DateLT(a, b) ==
    \/ a.year < b.year
    \/ a.year = b.year /\ a.month < b.month
    \/ a.year = b.year /\ a.month = b.month /\ a.day < b.day

\* builtin min(): the first smallest item of a non-empty list
RECURSIVE PyMinFrom(_, _, _)
PyMinFrom(best, s, i) ==
    IF i > Len(s) THEN best
    ELSE PyMinFrom(IF DateLT(s[i], best) THEN s[i] ELSE best, s, i + 1)

\* PyMin answering the first item
PyMinFirstItem(s) == s[1]

PyMin(s) == PyMinFrom(s[1], s, 2)

\* builtin max(): the first largest item of a non-empty list
RECURSIVE PyMaxFrom(_, _, _)
PyMaxFrom(best, s, i) ==
    IF i > Len(s) THEN best
    ELSE PyMaxFrom(IF DateLT(best, s[i]) THEN s[i] ELSE best, s, i + 1)

\* PyMax answering the last item
PyMaxLastItem(s) == s[Len(s)]

PyMax(s) == PyMaxFrom(s[1], s, 2)

(***************************************************************************)
(* Rows.                                                                   *)
(***************************************************************************)
\* list(row.keys())
RowKeys(row) == [i \in 1..Len(row) |-> row[i][1]]

\* the positions of key in row
KeyPositions(row, key) == {i \in 1..Len(row) : row[i][1] = key}

\* the value at one of the positions ps, None when there is none
ValueAt(row, ps) ==
    IF ps = {} THEN [present |-> FALSE, s |-> <<>>]
    ELSE [present |-> TRUE, s |-> row[CHOOSE i \in ps : TRUE][2]]

\* row.get(key): present = FALSE stands for None
RowGet(row, key) == ValueAt(row, KeyPositions(row, key))

\* Truthy as the test `is not None`
TruthyNotNone(v) == v.present

\* truth value of None or of a string
Truthy(v) == v.present /\ v.s # <<>>

(***************************************************************************)
(* Exceptions.                                                             *)
(***************************************************************************)
NoError == [type |-> "none", message |-> "", raised_by |-> ""]

MinEmptyError == [type |-> "ValueError",
                  message |-> "min() arg is an empty sequence",
                  raised_by |-> "min"]

IndexErrorRow0 == [type |-> "IndexError",
                   message |-> "list index out of range",
                   raised_by |-> "data_by_year_list[0]"]

(***************************************************************************)
(* _get_date_range.                                                        *)
(***************************************************************************)
\* one iteration of the loop over the rows: acc.dates is the list dates,
\* acc.printed the date strings reported by print
\* the try statement: append the parsed date, or report the string
TryAppend(acc, s, parsed) ==
    IF parsed.ok
    THEN [acc EXCEPT !.dates = Append(@, parsed.date)]
    ELSE [acc EXCEPT !.printed = Append(@, s)]

\* the body of the loop, given date_str = row.get(DATE_FIELD)
ScanValue(acc, date_str) ==
    IF ~Truthy(date_str) THEN acc
    ELSE TryAppend(acc, date_str.s, StrpTime(date_str.s))

ScanRow(acc, row) == ScanValue(acc, RowGet(row, DATE_FIELD))

\* ScanFrom with the loop left at the first date string that does not parse
RECURSIVE ScanFromUntilError(_, _, _)
ScanFromUntilError(acc, rows, i) ==
    IF i > Len(rows) THEN acc
    ELSE IF Len(ScanRow(acc, rows[i]).printed) > Len(acc.printed)
    THEN ScanRow(acc, rows[i])
    ELSE ScanFromUntilError(ScanRow(acc, rows[i]), rows, i + 1)

RECURSIVE ScanFrom(_, _, _)
ScanFrom(acc, rows, i) ==
    IF i > Len(rows) THEN acc
    ELSE ScanFrom(ScanRow(acc, rows[i]), rows, i + 1)

ScanRows(rows) == ScanFrom([dates |-> <<>>, printed |-> <<>>], rows, 1)

\* min(dates), max(dates) and the return; raised = TRUE stands for the
\* exception exc leaving _get_date_range
RangeOfDates(dates, out) ==
    IF dates = <<>>
    THEN [raised |-> TRUE, exc |-> MinEmptyError,
          min_date |-> NoDate, max_date |-> NoDate, printed |-> out]
    ELSE [raised |-> FALSE, exc |-> NoError,
          min_date |-> PyMin(dates), max_date |-> PyMax(dates),
          printed |-> out]

RangeOfScan(sc) == RangeOfDates(sc.dates, sc.printed)

GetDateRange(rows) == RangeOfScan(ScanRows(rows))

(***************************************************************************)
(* Inputs: date strings, rows, fetch results.                              *)
(***************************************************************************)
Str_2014_01_02 == <<"2", "0", "1", "4", "-", "0", "1", "-", "0", "2">>
Str_2014_12_31 == <<"2", "0", "1", "4", "-", "1", "2", "-", "3", "1">>
Str_2024_07_28 == <<"2", "0", "2", "4", "-", "0", "7", "-", "2", "8">>
Str_2014_1_2 == <<"2", "0", "1", "4", "-", "1", "-", "2">>
Str_2014_02_30 == <<"2", "0", "1", "4", "-", "0", "2", "-", "3", "0">>
Str_2014_12__5 == <<"2", "0", "1", "4", "-", "1", "2", "-", " ", "5">>
Str_not_a_date == <<"n", "o", "t", "-", "a", "-", "d", "a", "t", "e">>

Date_2014_01_02 == [year |-> 2014, month |-> 1, day |-> 2]
Date_2014_12_31 == [year |-> 2014, month |-> 12, day |-> 31]
Date_2024_07_28 == [year |-> 2024, month |-> 7, day |-> 28]

RowFirst == << <<"web_id", <<"1">>>>, <<"reported_date", Str_2014_01_02>> >>
RowLast == << <<"reported_date", Str_2024_07_28>>, <<"web_id", <<"2">>>>,
              <<"url", <<"u">>>> >>
RowMalformed == << <<"web_id", <<"3">>>>, <<"region", <<"r">>>>,
                   <<"reported_date", Str_not_a_date>> >>
RowMid == << <<"web_id", <<"4">>>>, <<"region", <<"r">>>>,
             <<"reported_date", Str_2014_12_31>> >>
RowNoDateField == << <<"web_id", <<"5">>>>, <<"region", <<"r">>>> >>
RowEmptyDate == << <<"web_id", <<"6">>>>, <<"reported_date", <<>>>> >>
RowUnpadded == << <<"web_id", <<"7">>>>, <<"reported_date", Str_2014_1_2>> >>
RowFeb30 == << <<"web_id", <<"8">>>>, <<"reported_date", Str_2014_02_30>> >>
RowSpacePadded == << <<"web_id", <<"9">>>>, <<"reported_date", Str_2014_12__5>> >>

\* the rows a year's fetch may hold
FetchRows == {RowFirst, RowLast, RowMalformed}

\* the rows of a collection handed directly to generate_dataset
RowSamples == FetchRows \cup {RowMid, RowNoDateField, RowEmptyDate,
                              RowUnpadded, RowFeb30, RowSpacePadded}

SeqsUpTo(S, n) == UNION {[1..k -> S] : k \in 0..n}

DownloadError == [type |-> "DownloadError", message |-> "download failed",
                  raised_by |-> "download_json"]
JSONDecodeError == [type |-> "JSONDecodeError", message |-> "bad payload",
                    raised_by |-> "download_json"]
FetchErrors == {DownloadError, JSONDecodeError}

\* what retriever.download_json(url) can do: raise exc, return None, or
\* return a list of rows (possibly empty)
FetchOutcomes ==
    {[raises |-> TRUE, exc |-> e, none |-> FALSE, rows |-> <<>>] :
        e \in FetchErrors}
    \cup {[raises |-> FALSE, exc |-> NoError, none |-> TRUE, rows |-> <<>>]}
    \cup {[raises |-> FALSE, exc |-> NoError, none |-> FALSE, rows |-> r] :
        r \in SeqsUpTo(FetchRows, MaxBatch)}

ResourceError == [type |-> "Exception", message |-> "resource generation failed",
                  raised_by |-> "generate_resource_from_iterable"]

\* what dataset.generate_resource_from_iterable can do
ResourceOutcomes == {"ok", "raise"}

(***************************************************************************)
(* scrape_data.                                                            *)
(***************************************************************************)
\* YearList with the range running through next_year
YearListThroughNext(now) ==
    IF now + 1 < StartYear THEN <<>>
    ELSE [i \in 1..(now + 2 - StartYear) |-> StartYear + i - 1]

\* [year for year in range(start_year, next_year)], next_year = now + 1
YearList(now) ==
    LET next_year == now + 1 IN
    IF next_year <= StartYear THEN <<>>
    ELSE [i \in 1..(next_year - StartYear) |-> StartYear + i - 1]

\* f"{data_url}/{year}/{self._OUTPUT_FORMAT}", as its pieces
DataUrlYear(data_url, year) == <<data_url, "/", year, "/", OUTPUT_FORMAT>>

\* `not data`: None and the empty list are both false
NotData(outcome) == outcome.none \/ outcome.rows = <<>>

\* Extend with the new rows put in front of the list
ExtendInFront(list, data) == data \o list

\* data_by_year_list.extend(data)
Extend(list, data) == list \o data

\* LoopIteration with a year without data raising instead of continuing
LoopIterationEmptyRaises(list, done, outcome) ==
    IF outcome.raises
    THEN [list |-> list, done |-> done, exc |-> outcome.exc]
    ELSE IF NotData(outcome)
    THEN [list |-> list, done |-> done,
          exc |-> [type |-> "ValueError", message |-> "no data",
                   raised_by |-> "scrape_data"]]
    ELSE [list |-> Extend(list, outcome.rows), done |-> done + 1,
          exc |-> NoError]

\* LoopIteration with the exception of download_json caught and the year
\* skipped
LoopIterationSwallows(list, done, outcome) ==
    IF outcome.raises \/ NotData(outcome)
    THEN [list |-> list, done |-> done + 1, exc |-> NoError]
    ELSE [list |-> Extend(list, outcome.rows), done |-> done + 1,
          exc |-> NoError]

\* one iteration of the loop over the years, given what download_json did:
\* the new accumulator, the number of years done, and the exception that
\* leaves scrape_data (NoError when none does)
LoopIteration(list, done, outcome) ==
    IF outcome.raises
    THEN [list |-> list, done |-> done, exc |-> outcome.exc]
    ELSE IF NotData(outcome)
    THEN [list |-> list, done |-> done + 1, exc |-> NoError]
    ELSE [list |-> Extend(list, outcome.rows), done |-> done + 1,
          exc |-> NoError]

(***************************************************************************)
(* The class Pipeline: scrape_data and _get_date_range of pipeline.py.     *)
(***************************************************************************)
PIPELINE_DATE_FIELD == "reported_date"
PIPELINE_OUTPUT_FORMAT == "json"
PipelineStartYear == 2014

\* [year for year in range(start_year, next_year)], next_year = now + 1
PipelineYearList(now) ==
    IF now + 1 <= PipelineStartYear THEN <<>>
    ELSE [i \in 1..(now + 1 - PipelineStartYear) |-> PipelineStartYear + i - 1]

\* f"{data_url}/{year}/{self._OUTPUT_FORMAT}", as its pieces
PipelineDataUrlYear(data_url, year) ==
    <<data_url, "/", year, "/", PIPELINE_OUTPUT_FORMAT>>

\* one iteration of the loop over the years
PipelineLoopIteration(list, done, outcome) ==
    IF outcome.raises
    THEN [list |-> list, done |-> done, exc |-> outcome.exc]
    ELSE IF outcome.none \/ outcome.rows = <<>>
    THEN [list |-> list, done |-> done + 1, exc |-> NoError]
    ELSE [list |-> list \o outcome.rows, done |-> done + 1, exc |-> NoError]

\* the try statement of the loop over the rows
PipelineTryAppend(acc, s, parsed) ==
    IF parsed.ok
    THEN [acc EXCEPT !.dates = Append(@, parsed.date)]
    ELSE [acc EXCEPT !.printed = Append(@, s)]

\* the body of the loop, given date_str = row.get(self._DATE_FIELD)
PipelineScanValue(acc, date_str) ==
    IF date_str.present /\ date_str.s # <<>>
    THEN PipelineTryAppend(acc, date_str.s, StrpTime(date_str.s))
    ELSE acc

RECURSIVE PipelineScanFrom(_, _, _)
PipelineScanFrom(acc, rows, i) ==
    IF i > Len(rows) THEN acc
    ELSE PipelineScanFrom(
             PipelineScanValue(acc, RowGet(rows[i], PIPELINE_DATE_FIELD)),
             rows, i + 1)

\* min(dates), max(dates) and the return
PipelineRangeOfDates(dates, out) ==
    IF dates = <<>>
    THEN [raised |-> TRUE, exc |-> MinEmptyError,
          min_date |-> NoDate, max_date |-> NoDate, printed |-> out]
    ELSE [raised |-> FALSE, exc |-> NoError,
          min_date |-> PyMin(dates), max_date |-> PyMax(dates),
          printed |-> out]

PipelineRangeOfScan(sc) == PipelineRangeOfDates(sc.dates, sc.printed)

PipelineGetDateRange(rows) ==
    PipelineRangeOfScan(
        PipelineScanFrom([dates |-> <<>>, printed |-> <<>>], rows, 1))

(***************************************************************************)
(* The method of the class that runs.                                      *)
(***************************************************************************)
YearListOf(v, now) ==
    IF v = "IOM" THEN YearList(now) ELSE PipelineYearList(now)

DataUrlYearOf(v, data_url, year) ==
    IF v = "IOM" THEN DataUrlYear(data_url, year)
    ELSE PipelineDataUrlYear(data_url, year)

LoopIterationOf(v, list, done, outcome) ==
    IF v = "IOM" THEN LoopIteration(list, done, outcome)
    ELSE PipelineLoopIteration(list, done, outcome)

GetDateRangeOf(v, rows) ==
    IF v = "IOM" THEN GetDateRange(rows) ELSE PipelineGetDateRange(rows)

(***************************************************************************)
(* generate_dataset.                                                       *)
(***************************************************************************)
NoRange == [min_date |-> NoDate, max_date |-> NoDate]
NoPeriod == [startdate |-> NoDate, enddate |-> NoDate]
NoResource == [headers |-> <<>>, iterable |-> <<>>, hxltags |-> "",
               filename |-> "", datecol |-> ""]
NoDataset == [returned |-> FALSE, name |-> "", title |-> "",
              time_period |-> NoPeriod, location |-> "", tags |-> "",
              subnational |-> ""]

\* Headers taken from the last row instead of the first
HeadersOfLastRow(data) ==
    IF data = <<>> THEN [raised |-> TRUE, keys |-> <<>>]
    ELSE [raised |-> FALSE, keys |-> RowKeys(data[Len(data)])]

\* list(data_by_year_list[0].keys()); raised = TRUE stands for IndexError
Headers(data) ==
    IF data = <<>> THEN [raised |-> TRUE, keys |-> <<>>]
    ELSE [raised |-> FALSE, keys |-> RowKeys(data[1])]

\* the tags handed to dataset.add_tags
TagsOf(v) ==
    IF v = "IOM" THEN "configuration[fixed_tags]" ELSE "configuration[tags]"

\* the HXL tag mapping handed to generate_resource_from_iterable
HxlTagsOf(v) == IF v = "IOM" THEN "_HXLTAGS" ELSE "{}"

\* the calls made on the dataset between set_time_period and the resource
MetadataCalls(v) ==
    IF v = "IOM" THEN <<"add_other_location", "add_tags">>
    ELSE <<"add_other_location", "add_tags", "set_subnational">>

\* the Dataset object after the metadata calls
StampedDataset(v, dr) ==
    [returned |-> FALSE,
     name |-> "missing-migrants-project-data",
     title |-> "Missing Migrants Project Data",
     time_period |-> [startdate |-> dr.min_date, enddate |-> dr.max_date],
     location |-> LOCATION,
     tags |-> TagsOf(v),
     subnational |-> IF v = "IOM" THEN "" ELSE "0"]

\* the rows of data at the positions ps, in order
RECURSIVE RowsAt(_, _, _)
RowsAt(data, ps, i) ==
    IF i > Len(data) THEN <<>>
    ELSE (IF i \in ps THEN <<data[i]>> ELSE <<>>) \o RowsAt(data, ps, i + 1)

\* ResourceArgs with the rows whose date field is missing or empty left out
ResourceArgsDatedRows(v, keys, data) ==
    [headers |-> keys,
     iterable |-> RowsAt(data, {i \in 1..Len(data) :
                                  Truthy(RowGet(data[i], DATE_FIELD))}, 1),
     hxltags |-> HxlTagsOf(v), filename |-> FILENAME, datecol |-> DATE_FIELD]

\* the arguments of generate_resource_from_iterable
ResourceArgs(v, keys, data) ==
    [headers |-> keys, iterable |-> data, hxltags |-> HxlTagsOf(v),
     filename |-> FILENAME, datecol |-> DATE_FIELD]

\* the calls made up to the resource generation
StampedCalls(v) ==
    <<"Dataset", "_get_date_range", "set_time_period">> \o MetadataCalls(v)

\* FinishRun with the exception of the resource generation caught and the
\* dataset returned all the same
FinishRunCatches(v, data, resource_outcome, rng, out, hd) ==
    IF hd.raised
    THEN [calls |-> StampedCalls(v), exc |-> IndexErrorRow0,
          date_range |-> rng, printed |-> out, resource |-> NoResource,
          result |-> "", data |-> data, dataset |-> NoDataset]
    ELSE [calls |-> Append(StampedCalls(v), "generate_resource_from_iterable"),
          exc |-> NoError, date_range |-> rng, printed |-> out,
          resource |-> ResourceArgs(v, hd.keys, data),
          result |-> resource_outcome, data |-> data,
          dataset |-> [StampedDataset(v, rng) EXCEPT !.returned = TRUE]]

\* the rest of generate_dataset once the date range is stamped: the header,
\* the resource generation and the return; data is the list after the call
FinishRun(v, data, resource_outcome, rng, out, hd) ==
    IF hd.raised
    THEN [calls |-> StampedCalls(v), exc |-> IndexErrorRow0,
          date_range |-> rng, printed |-> out, resource |-> NoResource,
          result |-> "", data |-> data, dataset |-> NoDataset]
    ELSE [calls |-> Append(StampedCalls(v), "generate_resource_from_iterable"),
          exc |-> IF resource_outcome = "raise" THEN ResourceError
                  ELSE NoError,
          date_range |-> rng, printed |-> out,
          resource |-> ResourceArgs(v, hd.keys, data),
          result |-> resource_outcome, data |-> data,
          dataset |-> IF resource_outcome = "raise" THEN NoDataset
                      ELSE [StampedDataset(v, rng) EXCEPT !.returned = TRUE]]

\* generate_dataset once _get_date_range has answered dr
RunAfterRange(v, data, resource_outcome, dr) ==
    IF dr.raised
    THEN [calls |-> <<"Dataset", "_get_date_range">>, exc |-> dr.exc,
          date_range |-> NoRange, printed |-> dr.printed,
          resource |-> NoResource, result |-> "", data |-> data,
          dataset |-> NoDataset]
    ELSE FinishRun(v, data, resource_outcome,
                   [min_date |-> dr.min_date, max_date |-> dr.max_date],
                   dr.printed, Headers(data))

\* generate_dataset(data) run to its end, given what resource generation
\* does: the calls made, the date range, the exception that leaves it and
\* the dataset it returns
GenerateDatasetRun(v, data, resource_outcome) ==
    RunAfterRange(v, data, resource_outcome, GetDateRangeOf(v, data))

(***************************************************************************)
(* The run: scrape_data, then generate_dataset on what it returned.        *)
(***************************************************************************)
Init ==
    /\ variant \in Variants
    /\ base_url \in BaseUrls
    /\ now_year \in StartYear..(StartYear + MaxYears - 1)
    /\ pc = "start"
    /\ years = <<>>
    /\ idx = 0
    /\ data_by_year_list = <<>>
    /\ requests = <<>>
    /\ outcomes = <<>>
    /\ returned = FALSE
    /\ error = NoError
    /\ date_range = NoRange
    /\ printed = <<>>
    /\ calls = <<>>
    /\ resource_args = NoResource
    /\ resource_result = ""
    /\ dataset = NoDataset

\* scrape_data up to the loop: the list of years and the empty accumulator
ScrapeBegin ==
    /\ pc = "start"
    /\ years' = YearListOf(variant, now_year)
    /\ idx' = 0
    /\ data_by_year_list' = <<>>
    /\ pc' = "loop"
    /\ UNCHANGED <<variant, base_url, now_year, requests, outcomes, returned,
                   error, date_range, printed, calls, resource_args,
                   resource_result, dataset>>

\* the state after an iteration: an exception leaves scrape_data and its
\* local list is lost
AfterIteration(it) ==
    /\ idx' = it.done
    /\ error' = it.exc
    /\ pc' = IF it.exc # NoError THEN "failed" ELSE "loop"
    /\ data_by_year_list' = IF it.exc # NoError THEN <<>> ELSE it.list

\* one iteration of the loop: the request for the next year and the
\* processing of its result
FetchYear ==
    /\ pc = "loop"
    /\ idx < Len(years)
    /\ \E outcome \in FetchOutcomes :
         /\ requests' = Append(requests, DataUrlYearOf(variant, base_url,
                                                      years[idx + 1]))
         /\ outcomes' = Append(outcomes, outcome)
         /\ AfterIteration(LoopIterationOf(variant, data_by_year_list, idx,
                                           outcome))
    /\ UNCHANGED <<variant, base_url, now_year, years, returned, date_range,
                   printed, calls, resource_args, resource_result, dataset>>

\* return data_by_year_list
ScrapeReturn ==
    /\ pc = "loop"
    /\ idx >= Len(years)
    /\ returned' = TRUE
    /\ pc' = "scraped"
    /\ UNCHANGED <<variant, base_url, now_year, years, idx, data_by_year_list,
                   requests, outcomes, error, date_range, printed, calls,
                   resource_args, resource_result, dataset>>

\* the state after generate_dataset: it returned the dataset or raised
AfterRun(run) ==
    /\ calls' = run.calls
    /\ error' = run.exc
    /\ date_range' = run.date_range
    /\ printed' = run.printed
    /\ resource_args' = run.resource
    /\ resource_result' = run.result
    /\ data_by_year_list' = run.data
    /\ dataset' = run.dataset
    /\ pc' = IF run.exc # NoError THEN "failed" ELSE "done"

\* generate_dataset(data_by_year_list)
GenerateDataset ==
    /\ pc = "scraped"
    /\ \E resource_outcome \in ResourceOutcomes :
         AfterRun(GenerateDatasetRun(variant, data_by_year_list,
                                     resource_outcome))
    /\ UNCHANGED <<variant, base_url, now_year, years, idx, requests,
                   outcomes, returned>>

Next == ScrapeBegin \/ FetchYear \/ ScrapeReturn \/ GenerateDataset

Spec == Init /\ [][Next]_vars

(***************************************************************************)
(* generate_dataset called on an arbitrary row collection.                 *)
(***************************************************************************)
InitGen ==
    /\ variant \in Variants
    /\ base_url \in BaseUrls
    /\ now_year = StartYear
    /\ pc = "scraped"
    /\ years = <<>>
    /\ idx = 0
    /\ data_by_year_list \in SeqsUpTo(RowSamples, MaxRows)
    /\ requests = <<>>
    /\ outcomes = <<>>
    /\ returned = TRUE
    /\ error = NoError
    /\ date_range = NoRange
    /\ printed = <<>>
    /\ calls = <<>>
    /\ resource_args = NoResource
    /\ resource_result = ""
    /\ dataset = NoDataset

NextGen == GenerateDataset

SpecGen == InitGen /\ [][NextGen]_vars

(***************************************************************************)
(* Properties of scrape_data.                                              *)
(***************************************************************************)
\* scrape_data raised: the run failed before it returned its list
ScrapeFailed == pc = "failed" /\ ~returned

\* the rows of the fetch results res, one result after the other
RECURSIVE ConcatBatches(_)
ConcatBatches(res) ==
    IF res = <<>> THEN <<>>
    ELSE res[1].rows \o ConcatBatches(Tail(res))

RECURSIVE SumOfLengths(_)
SumOfLengths(res) ==
    IF res = <<>> THEN 0
    ELSE Len(res[1].rows) + SumOfLengths(Tail(res))

\* the year a request asks for
YearOf(url) == url[3]

\* C1: when no fetch fails, what scrape_data returns is the concatenation
\* of the per-year results in ascending year order, each batch in its own
\* order and empty years adding nothing, so its length is the sum of the
\* batch lengths.
C1_Concatenation ==
    returned =>
        /\ \A i \in 1..Len(outcomes) : ~outcomes[i].raises
        /\ \A i \in 1..Len(requests) : YearOf(requests[i]) = StartYear + i - 1
        /\ data_by_year_list = ConcatBatches(outcomes)
        /\ Len(data_by_year_list) = SumOfLengths(outcomes)

\* two years with rows, the first with two different rows: year order and
\* within-year order both show
C1_Witness ==
    /\ returned
    /\ Len(outcomes) = 2
    /\ outcomes[1].rows = <<RowLast, RowFirst>>
    /\ outcomes[2].rows = <<RowMalformed>>
    /\ data_by_year_list = <<RowLast, RowFirst, RowMalformed>>

EmptyOutcome(o) == ~o.raises /\ (o.none \/ o.rows = <<>>)

\* the rows of data, as a set
RowsOf(data) == {data[i] : i \in 1..Len(data)}

\* C6: a year whose fetch returns an empty or absent result is no error:
\* the loop goes on to the next year, every year of the list is fetched
\* before scrape_data returns, the rows of all non-empty years are in the
\* result, and a run whose years are all empty still returns.
C6_EmptyYearIsNoError ==
    /\ \A i \in 1..Len(outcomes) :
         EmptyOutcome(outcomes[i]) =>
            /\ ~(ScrapeFailed /\ i = Len(outcomes))
            /\ (pc = "loop" /\ i = Len(outcomes)) => idx = i
    /\ returned =>
         /\ Len(outcomes) = Len(years)
         /\ \A i \in 1..Len(outcomes) :
              RowsOf(outcomes[i].rows) \subseteq RowsOf(data_by_year_list)
    /\ (pc = "loop" /\ \A i \in 1..Len(outcomes) : EmptyOutcome(outcomes[i]))
         => ENABLED (FetchYear \/ ScrapeReturn)

\* the first year is empty and the second year's row still arrives
C6_Witness ==
    /\ returned
    /\ Len(outcomes) = 2
    /\ EmptyOutcome(outcomes[1])
    /\ outcomes[2].rows = <<RowFirst>>
    /\ data_by_year_list = <<RowFirst>>

\* C7: scrape_data fails exactly when download_json fails for some year;
\* the exception reaches the caller unchanged, the failing year is asked
\* for once, no later year is fetched and no list is returned; when no
\* fetch fails scrape_data can always go on to its return.
C7_FailsOnlyWithFetch ==
    /\ ScrapeFailed <=> \E i \in 1..Len(outcomes) : outcomes[i].raises
    /\ \A i \in 1..Len(outcomes) :
         outcomes[i].raises =>
            /\ i = Len(outcomes)
            /\ error = outcomes[i].exc
            /\ Len(requests) = i
            /\ \A j \in 1..(i - 1) : requests[j] # requests[i]
            /\ ~returned
            /\ data_by_year_list = <<>>
            /\ ~ENABLED Next
    /\ (pc = "loop" /\ \A i \in 1..Len(outcomes) : ~outcomes[i].raises)
         => ENABLED (FetchYear \/ ScrapeReturn)

\* the first of two years fails after nothing, the second is never asked for
C7_Witness ==
    /\ ScrapeFailed
    /\ Len(years) = 2
    /\ Len(requests) = 1
    /\ outcomes[1].raises
    /\ error = JSONDecodeError

\* the requests of a whole run in the year now
ExpectedRequests(now) ==
    [i \in 1..(now - StartYear + 1) |->
        <<base_url, "/", StartYear + i - 1, "/", "json">>]

IsPrefix(s, u) == Len(s) <= Len(u) /\ \A i \in 1..Len(s) : s[i] = u[i]

\* C8: with the current year C >= 2014 and no failing fetch, download_json
\* is called once for each year of 2014..C and for no other, in ascending
\* order, with the url base_url/year/json; a request is made only once the
\* previous result is processed, and the run returns after C - 2014 + 1
\* fetches.
C8_OneFetchPerYear ==
    now_year >= StartYear =>
        /\ IsPrefix(requests, ExpectedRequests(now_year))
        /\ Len(outcomes) = Len(requests)
        /\ pc = "loop" => idx = Len(requests)
        /\ returned =>
             /\ requests = ExpectedRequests(now_year)
             /\ Len(requests) = now_year - StartYear + 1

C8_Witness ==
    /\ returned
    /\ now_year = StartYear + 1
    /\ Len(requests) = 2
    /\ YearOf(requests[1]) = 2014
    /\ YearOf(requests[2]) = 2015

(***************************************************************************)
(* Properties of _get_date_range and generate_dataset.                     *)
(***************************************************************************)
\* generate_dataset has run on data_by_year_list
Generated == returned /\ pc \in {"done", "failed"}

\* the positions of the rows whose date string strptime accepts
ParsedPositions(data) ==
    {i \in 1..Len(data) :
        /\ Truthy(RowGet(data[i], DATE_FIELD))
        /\ StrpTime(RowGet(data[i], DATE_FIELD).s).ok}

\* the dates of those rows
ParsedDatesOf(data) ==
    {StrpTime(RowGet(data[i], DATE_FIELD).s).date : i \in ParsedPositions(data)}

DateLE(a, b) == ~DateLT(b, a)

RangeIs(rng, lo, hi) == rng.min_date = lo /\ rng.max_date = hi

\* C2: for a collection with at least one valid date the range is
\* (min_date, max_date) with min_date <= d <= max_date for every parsed
\* date d, both ends being the date of some row; a collection whose only
\* valid date is d = 2014-12-31 yields (d, d).
C2_RangeBoundsEveryDate ==
    (Generated /\ ParsedDatesOf(data_by_year_list) # {}) =>
        /\ error.raised_by # "min"
        /\ \A d \in ParsedDatesOf(data_by_year_list) :
             DateLE(date_range.min_date, d) /\ DateLE(d, date_range.max_date)
        /\ date_range.min_date \in ParsedDatesOf(data_by_year_list)
        /\ date_range.max_date \in ParsedDatesOf(data_by_year_list)
        /\ (\A i \in ParsedPositions(data_by_year_list) :
                data_by_year_list[i] = RowMid)
             => RangeIs(date_range, Date_2014_12_31, Date_2014_12_31)

\* the latest date first, the earliest last, a malformed one between
C2_Witness ==
    /\ pc = "done"
    /\ data_by_year_list = <<RowLast, RowMalformed, RowFirst>>
    /\ RangeIs(date_range, Date_2014_01_02, Date_2024_07_28)

\* C3: when no row of a non-empty collection has a date that parses, the
\* reduction fails with its own "no valid dates found" error, not through
\* min() of an empty list.
C3_ExplicitNoValidDates ==
    (Generated /\ data_by_year_list # <<>>
        /\ ParsedDatesOf(data_by_year_list) = {}) =>
        /\ pc = "failed"
        /\ error.raised_by = "_get_date_range"
        /\ error.message = "no valid dates found"

\* C4: on an empty collection generate_dataset fails with its own "no
\* usable rows" error, raised before the header is read off row 0 and
\* before resource generation.
C4_ExplicitNoUsableRows ==
    (Generated /\ data_by_year_list = <<>>) =>
        /\ pc = "failed"
        /\ error.raised_by = "generate_dataset"
        /\ error.message = "no usable rows"
        /\ resource_args = NoResource
        /\ \A i \in 1..Len(calls) :
             calls[i] # "generate_resource_from_iterable"

InsertAt(s, i, x) == SubSeq(s, 1, i - 1) \o <<x>> \o SubSeq(s, i, Len(s))

\* r is a date range that was computed, and it is rng
SameRange(r, rng) ==
    /\ ~r.raised
    /\ r.min_date = rng.min_date
    /\ r.max_date = rng.max_date

\* rows whose reported_date is a string that is no date
MalformedSamples == {RowMalformed, RowFeb30}

\* C5: a row with a malformed reported_date added at any position of a
\* collection that has a valid date leaves the date range as it is and
\* does not make _get_date_range fail.
C5_MalformedRowChangesNothing ==
    /\ \A bad \in MalformedSamples : ParsedPositions(<<bad>>) = {}
    /\ (Generated /\ ParsedDatesOf(data_by_year_list) # {}) =>
         \A bad \in MalformedSamples :
            \A i \in 1..(Len(data_by_year_list) + 1) :
               SameRange(GetDateRange(InsertAt(data_by_year_list, i, bad)),
                         date_range)

\* a malformed row stands before the row that holds the earliest date
C5_Witness ==
    /\ pc = "done"
    /\ data_by_year_list = <<RowMid, RowMalformed, RowFirst>>
    /\ printed = <<Str_not_a_date>>
    /\ RangeIs(date_range, Date_2014_01_02, Date_2014_12_31)

\* C9: for a non-empty collection with a valid date the header handed to
\* generate_resource_from_iterable is the key list of the first row, in
\* that row's order, whatever keys the later rows have.
C9_HeaderIsFirstRowKeys ==
    (Generated /\ ParsedDatesOf(data_by_year_list) # {}) =>
        /\ resource_args # NoResource
        /\ resource_args.headers =
             [i \in 1..Len(data_by_year_list[1]) |-> data_by_year_list[1][i][1]]

\* the later rows have a key the first lacks and lack one it has
C9_Witness ==
    /\ pc = "done"
    /\ data_by_year_list = <<RowFirst, RowLast, RowNoDateField>>
    /\ resource_args.headers = <<"web_id", "reported_date">>

Permuted(s, p) == [i \in 1..Len(s) |-> s[p[i]]]

\* C10: every permutation of the rows of a collection with a valid date
\* has the same date range; a collection whose earliest valid date is
\* 2014-01-02 and whose latest is 2024-07-28 has exactly that range.
C10_OrderIndependent ==
    (Generated /\ ParsedDatesOf(data_by_year_list) # {}) =>
        /\ \A p \in Permutations(1..Len(data_by_year_list)) :
             SameRange(GetDateRange(Permuted(data_by_year_list, p)),
                       date_range)
        /\ {RowFirst, RowLast} \subseteq RowsOf(data_by_year_list)
             => RangeIs(date_range, Date_2014_01_02, Date_2024_07_28)

\* the extremes are neither the first nor in ascending order
C10_Witness ==
    /\ pc = "done"
    /\ data_by_year_list = <<RowMid, RowLast, RowFirst>>
    /\ RangeIs(date_range, Date_2014_01_02, Date_2024_07_28)

(***************************************************************************)
(* Properties of the run as a whole.                                       *)
(***************************************************************************)
\* the positions of the call op in the calls made
CallPositions(op) == {i \in 1..Len(calls) : calls[i] = op}

\* C11: no failure leaves a dataset behind.  When the date-range reduction
\* fails, resource generation is not invoked and no dataset is returned;
\* when resource generation fails no dataset is returned; a dataset is
\* returned only once the date range is stamped and then resource
\* generation has completed.
\* the date-range reduction, min(dates), raised
ReductionFailed == error.raised_by = "min"

C12_CollectionUnchanged ==
    [][pc = "scraped" =>
          /\ data_by_year_list' = data_by_year_list
          /\ resource_result' # "" =>
                resource_args'.iterable = data_by_year_list]_vars

\* rows without the field and with a malformed date reach the resource
C12_Witness ==
    /\ pc = "done"
    /\ data_by_year_list = <<RowNoDateField, RowMalformed, RowFirst>>
    /\ resource_args.iterable = <<RowNoDateField, RowMalformed, RowFirst>>
    /\ RangeIs(date_range, Date_2014_01_02, Date_2014_01_02)

(***************************************************************************)
(* Which rows give a date.                                                 *)
(***************************************************************************)
\* the row has the date field and its value is not the empty string
HasDateString(row) ==
    \E i \in 1..Len(row) : row[i][1] = "reported_date" /\ row[i][2] # <<>>

DateStringOf(row) ==
    row[CHOOSE i \in 1..Len(row) : row[i][1] = "reported_date"][2]

DigitsAt(s, ps) == \A i \in ps : s[i] \in {"0", "1", "2", "3", "4", "5", "6",
                                            "7", "8", "9"}

\* YYYY-MM-DD with every field zero-padded, naming a day of the calendar
StrictDateString(s) ==
    /\ Len(s) = 10
    /\ DigitsAt(s, {1, 2, 3, 4, 6, 7, 9, 10})
    /\ s[5] = "-" /\ s[8] = "-"
    /\ ValidDate(ToInt(SubSeq(s, 1, 4)), ToInt(SubSeq(s, 6, 7)),
                 ToInt(SubSeq(s, 9, 10)))

\* the number a day field of digits, or of a space and a digit, stands for
DayNumber(f) == IF f[1] = " " THEN ToInt(Tail(f)) ELSE ToInt(f)

\* a day field: one or two digits, or a space and a digit
DayField(f) ==
    /\ Len(f) \in {1, 2}
    /\ \/ DigitsAt(f, 1..Len(f))
       \/ Len(f) = 2 /\ f[1] = " " /\ DigitsAt(f, {2})

\* the fields year, month, day of s when its dashes stand at 5 and at dash2
FieldsDate(s, dash2) ==
    [year |-> ToInt(SubSeq(s, 1, 4)),
     month |-> ToInt(SubSeq(s, 6, dash2 - 1)),
     day |-> DayNumber(SubSeq(s, dash2 + 1, Len(s)))]

\* what strptime("%Y-%m-%d") takes: a four-digit year, a month of one or
\* two digits, a day of one or two digits or of a space and a digit, with
\* dashes between, naming a day of the calendar
LenientDateString(s) ==
    \E dash2 \in {7, 8} :
        /\ Len(s) > dash2
        /\ s[5] = "-" /\ s[dash2] = "-"
        /\ DigitsAt(s, (1..4) \cup (6..(dash2 - 1)))
        /\ DayField(SubSeq(s, dash2 + 1, Len(s)))
        /\ ValidDate(FieldsDate(s, dash2).year, FieldsDate(s, dash2).month,
                     FieldsDate(s, dash2).day)

LenientDateOf(s) == FieldsDate(s, IF s[7] = "-" THEN 7 ELSE 8)

\* the positions of the rows of data whose date string is of the kind Kind
\* (ok = TRUE) or is a non-empty string not of that kind (ok = FALSE)
PositionsByKind(data, Kind(_), ok) ==
    {i \in 1..Len(data) :
        HasDateString(data[i]) /\ (Kind(DateStringOf(data[i])) <=> ok)}

\* the date strings of the rows at ps, in row order
RECURSIVE StringsAt(_, _, _)
StringsAt(data, ps, i) ==
    IF i > Len(data) THEN <<>>
    ELSE (IF i \in ps THEN <<DateStringOf(data[i])>> ELSE <<>>)
         \o StringsAt(data, ps, i + 1)

\* the rows that give a date are those whose date string is of the kind
\* Kind, the other non-empty strings are reported, nothing else is
ContributesIff(Kind(_)) ==
    Generated =>
        /\ printed = StringsAt(data_by_year_list,
                               PositionsByKind(data_by_year_list, Kind, FALSE),
                               1)
        /\ error.raised_by = "min"
             <=> PositionsByKind(data_by_year_list, Kind, TRUE) = {}
        /\ \A i \in PositionsByKind(data_by_year_list, Kind, TRUE) :
             /\ DateLE(date_range.min_date,
                       LenientDateOf(DateStringOf(data_by_year_list[i])))
             /\ DateLE(LenientDateOf(DateStringOf(data_by_year_list[i])),
                       date_range.max_date)
        /\ PositionsByKind(data_by_year_list, Kind, TRUE) # {} =>
             \E i, j \in PositionsByKind(data_by_year_list, Kind, TRUE) :
                /\ date_range.min_date =
                     LenientDateOf(DateStringOf(data_by_year_list[i]))
                /\ date_range.max_date =
                     LenientDateOf(DateStringOf(data_by_year_list[j]))

\* C13 as stated: a row gives a date to the range exactly when its
\* reported_date is present, non-empty and a strict zero-padded YYYY-MM-DD
\* day of the calendar; absent and empty values are skipped silently, every
\* other string is skipped with a diagnostic.
C13_StrictDatesOnly == ContributesIff(StrictDateString)

\* C13 as amended: a row gives a date to the range exactly when its
\* reported_date is present, non-empty and accepted by
\* strptime("%Y-%m-%d"), which takes months and days without the leading
\* zero and a day padded with a space; absent and empty values are skipped
\* silently, every other string is skipped with a diagnostic.
C13_DatesStrptimeAccepts == ContributesIff(LenientDateString)

\* an unpadded date gives the range, an empty one is silent, the 30th of
\* February is reported
C13_Witness ==
    /\ pc = "done"
    /\ data_by_year_list = <<RowUnpadded, RowEmptyDate, RowFeb30>>
    /\ printed = <<Str_2014_02_30>>
    /\ RangeIs(date_range, Date_2014_01_02, Date_2014_01_02)

(***************************************************************************)
(* The two classes side by side.                                           *)
(***************************************************************************)
\* a sequence of calls without the call op
RECURSIVE WithoutCall(_, _)
WithoutCall(cs, op) ==
    IF cs = <<>> THEN <<>>
    ELSE (IF cs[1] = op THEN <<>> ELSE <<cs[1]>>) \o WithoutCall(Tail(cs), op)

\* two runs of generate_dataset that differ at most in the tags, the HXL
\* tag mapping and the subnational flag
SameButTags(a, b) ==
    /\ a.exc = b.exc
    /\ a.date_range = b.date_range
    /\ a.printed = b.printed
    /\ a.result = b.result
    /\ a.data = b.data
    /\ [a.resource EXCEPT !.hxltags = ""] = [b.resource EXCEPT !.hxltags = ""]
    /\ [a.dataset EXCEPT !.tags = "", !.subnational = ""]
         = [b.dataset EXCEPT !.tags = "", !.subnational = ""]
    /\ WithoutCall(a.calls, "set_subnational")
         = WithoutCall(b.calls, "set_subnational")

\* the runs of generate_dataset of the two classes on the collection data,
\* given the date ranges rng_iom and rng_pipeline the classes compute from it
SameRunsGiven(data, rng_iom, rng_pipeline) ==
    /\ rng_pipeline = rng_iom
    /\ \A ro \in ResourceOutcomes :
         SameButTags(RunAfterRange("IOM", data, ro, rng_iom),
                     RunAfterRange("Pipeline", data, ro, rng_pipeline))

\* C14: on the same base url, current year and fetch outcomes the classes
\* IOM and Pipeline make the same requests, return the same collection or
\* fail at the same year, and compute the same date range or fail on the
\* same collections; their datasets differ only in the tags, the HXL tag
\* mapping and the subnational flag.
C14_VariantsAgree ==
    /\ PipelineYearList(now_year) = YearList(now_year)
    /\ (pc = "loop" /\ idx < Len(years)) =>
         /\ PipelineDataUrlYear(base_url, years[idx + 1])
              = DataUrlYear(base_url, years[idx + 1])
         /\ \A o \in FetchOutcomes :
              PipelineLoopIteration(data_by_year_list, idx, o)
                = LoopIteration(data_by_year_list, idx, o)
    /\ pc = "scraped" =>
         SameRunsGiven(data_by_year_list,
                       GetDateRangeOf("IOM", data_by_year_list),
                       GetDateRangeOf("Pipeline", data_by_year_list))

\* the class Pipeline has fetched two years and is about to build the
\* dataset from rows with and without a valid date
C14_Witness ==
    /\ variant = "Pipeline"
    /\ pc = "scraped"
    /\ Len(requests) = 2
    /\ data_by_year_list = <<RowLast, RowMalformed, RowFirst>>

====
